---- MODULE Spec2Model ----
(***************************************************************************)
(* Batch job processing engine of easy-crawl4ai.                           *)
(*                                                                         *)
(* The repository ships the engine twice: main.py and                      *)
(* easy_crawl4ai/crossplatform/web_app.py.  Both drive the same record     *)
(* store (models.py: BatchJob, BatchJobItem, CrawlResult).  The variable   *)
(* engine says which of the two applications is deployed; every handler    *)
(* is translated from the file of that application.                        *)
(*                                                                         *)
(* One batch is modelled.  A step of a processing loop is the code between *)
(* two points at which the thread touches the record store in a separate   *)
(* statement group or blocks (crawl call, sleep).  The web handlers        *)
(* (start, pause, retry) are one step each.  Record-store reads and        *)
(* writes are taken as the handlers state them: a query reads the store,   *)
(* an assignment followed by commit writes the assigned columns.           *)
(*                                                                         *)
(* crossplatform/web_app.py is modelled against the record schema its own  *)
(* create_batch writes.  Its module never imports time, so each            *)
(* time.sleep call in its process_batch_job raises NameError, which the    *)
(* function's outermost except turns into batch.status = "failed".         *)
(*                                                                         *)
(* Specifications: Spec (all requests that change records, any crawl       *)
(* outcome), SpecExport (Spec with the read-only export request),          *)
(* SpecDrain (a single start and a fixed outcome per URL), SpecResume      *)
(* (start, pause, start, with weak fairness of every thread), SpecSave     *)
(* (Spec with crawls that succeed and output files that can or cannot be   *)
(* written) and SpecJob (the one-shot crawl request run_crawl beside a     *)
(* batch that is started once).                                            *)
(***************************************************************************)
EXTENDS Integers, Sequences, FiniteSets, TLC

(* ---- bounds ---- *)
NItems == 2        \* URLs of the batch (total_urls)
MaxWorkers == 2    \* largest concurrent_workers a batch is created with
MaxRequests == 3   \* accepted start, pause and retry requests

(* ---- program constants ---- *)
BatchId == 1           \* primary key of the one batch
NoTime == 0            \* NULL of a DateTime column
NoResult == 0          \* NULL of result_id
DefaultPriority == 0   \* BatchJobItem.priority default
NoError == "NULL"      \* NULL of item.error_message
JobId == 1             \* primary key of the one CrawlJob row
JobUrl == 0            \* the URL of the one-shot request: none of the batch's

ItemIds == 1..NItems
LoopIds == 1..MaxRequests   \* one thread per accepted start at most
Engines == {"main", "crossplatform"}
(* what the crawl of one item can do: return a result that is stored ("ok"),
   raise with a message, raise with an empty message (str(e) = ""), return
   None, return a result a field of which cannot be stored (text is None), or
   return a result the output file of which cannot be written *)
Outcomes == {"ok", "crawl_error", "crawl_error_blank", "no_result",
             "bad_result", "save_error"}

(* the outcomes in which the crawl call succeeds or raises *)
PlainOutcomes == {"ok", "crawl_error", "crawl_error_blank"}

VARIABLES
    engine,            \* which application is deployed
    crawl4aiInstalled, \* whether "import crawl4ai" succeeds
    batch,             \* the BatchJob row
    items,             \* the BatchJobItem rows, by id (ids follow creation order)
    results,           \* the CrawlResult rows, by id (sequence index)
    loops,             \* the process_batch_job threads, by launch order
    now,               \* datetime.utcnow(): ticks on each accepted start
    requests,          \* accepted start, pause and retry requests so far
    last,              \* the step taken last: handler, argument, accepted or not
    pauseInEffect,     \* history: a pause was accepted and no start since
    inflightAtPause,   \* history: items in processing when that pause was accepted
    saveFailed,        \* history: saving a result raised outside a per-item try
    resetItems,        \* history: items reset by a retry on a completed or failed
                       \* batch, no start accepted since
    site,              \* environment: what the crawl of each URL does, or "any"
    job                \* the CrawlJob row of the one-shot request and the position
                       \* of the request that handles it

vars == <<engine, crawl4aiInstalled, batch, items, results, loops, now,
          requests, last, pauseInEffect, inflightAtPause, saveFailed, resetItems,
          site, job>>

(* ---- helpers ---- *)
(* the crawl_jobs table is empty: no one-shot crawl has been requested *)
NoJob == [status |-> "none", completed_at |-> NoTime, error_message |-> NoError,
          pages_crawled |-> 0, pc |-> "none"]

Min(a, b) == IF a < b THEN a ELSE b

WithStatus(s) == {i \in ItemIds : items[i].status = s}

(* the terminal statuses of a batch *)
Finished(status) == status \in {"completed", "failed"}

IdleLoop == [pc |-> "idle", pending_items |-> <<>>, idx |-> 0,
             total_processed |-> 0,
             snap |-> [processed_urls |-> 0, successful_urls |-> 0, failed_urls |-> 0]]

(* a thread that has returned: its locals are gone *)
DoneLoop == [IdleLoop EXCEPT !.pc = "done"]

Step(op, arg, ok) == [op |-> op, arg |-> arg, ok |-> ok]

(* all orders of k distinct elements of S: the rows a query without ORDER BY
   may return under LIMIT k *)
RowsInAnyOrder(S, k) ==
    {s \in [1..k -> S] : \A a, b \in 1..k : a # b => s[a] # s[b]}

(* ORDER BY priority DESC, created_at ASC *)
Precedes(a, b) ==
    \/ items[a].priority > items[b].priority
    \/ items[a].priority = items[b].priority /\ items[a].created_at < items[b].created_at

RECURSIVE RowsOrdered(_, _)
RowsOrdered(S, k) ==
    IF k = 0 \/ S = {} THEN <<>>
    ELSE LET first == CHOOSE a \in S : \A b \in S \ {a} : Precedes(a, b)
         IN <<first>> \o RowsOrdered(S \ {first}, k - 1)

(* ---- initial state: the rows create_batch leaves ---- *)
InitialStatus(e) == IF e = "main" THEN {"pending", "paused"} ELSE {"pending"}

create_batch ==
    /\ engine \in Engines
    /\ crawl4aiInstalled \in BOOLEAN
    /\ \E cw \in 1..MaxWorkers, st \in InitialStatus(engine) :
          batch = [status |-> st, concurrent_workers |-> cw,
                   total_urls |-> NItems, processed_urls |-> 0,
                   successful_urls |-> 0, failed_urls |-> 0,
                   started_at |-> NoTime, completed_at |-> NoTime]
    /\ items = [i \in ItemIds |->
                   [status |-> "pending", priority |-> DefaultPriority,
                    created_at |-> i, result_id |-> NoResult,
                    error_message |-> NoError,
                    started_at |-> NoTime, completed_at |-> NoTime]]
    /\ results = <<>>
    /\ loops = [l \in LoopIds |-> IdleLoop]
    /\ now = 0
    /\ requests = 0
    /\ last = Step("create_batch", 0, TRUE)
    /\ pauseInEffect = FALSE
    /\ inflightAtPause = {}
    /\ saveFailed = FALSE
    /\ resetItems = {}

(* the crawl of a URL may end in any outcome, each time it is called *)
Init == create_batch /\ site = [i \in ItemIds |-> "any"] /\ job = NoJob

(* ---- start_batch ---- *)
(* mutation: the status check also lets a running batch through *)
StartAllowedAlsoRunning(status) == status \in {"pending", "paused", "running"}

StartAllowed(status) == status \in {"pending", "paused"}

(* mutation: started_at is stamped on every start *)
StartedAtEveryStart(b, t) == t

StartedAt(b, t) == IF b.started_at = NoTime THEN t ELSE b.started_at

start_batch ==
    IF ~StartAllowed(batch.status)
    THEN /\ last' = Step("start_batch", 0, FALSE)
         /\ UNCHANGED <<engine, site, job, crawl4aiInstalled, batch, items, results, loops,
                        now, requests, pauseInEffect, inflightAtPause, saveFailed,
                        resetItems>>
    ELSE /\ requests < MaxRequests
         /\ requests' = requests + 1
         /\ now' = now + 1
         /\ batch' = [batch EXCEPT !.status = "running",
                                   !.started_at = StartedAt(batch, now')]
         /\ loops' = [loops EXCEPT ![now'] = [IdleLoop EXCEPT !.pc = "entry"]]
         /\ last' = Step("start_batch", 0, TRUE)
         /\ pauseInEffect' = FALSE
         /\ inflightAtPause' = {}
         /\ resetItems' = {}
         /\ UNCHANGED <<engine, site, job, crawl4aiInstalled, items, results, saveFailed>>

(* ---- pause_batch ---- *)
(* mutation: the status check also lets a pending batch through *)
PauseAllowedAlsoPending(status) == status \in {"running", "pending"}

PauseAllowed(status) == status = "running"

pause_batch ==
    IF ~PauseAllowed(batch.status)
    THEN /\ last' = Step("pause_batch", 0, FALSE)
         /\ UNCHANGED <<engine, site, job, crawl4aiInstalled, batch, items, results, loops,
                        now, requests, pauseInEffect, inflightAtPause, saveFailed,
                        resetItems>>
    ELSE /\ requests < MaxRequests
         /\ requests' = requests + 1
         /\ batch' = [batch EXCEPT !.status = "paused"]
         /\ last' = Step("pause_batch", 0, TRUE)
         /\ pauseInEffect' = TRUE
         /\ inflightAtPause' = WithStatus("processing")
         /\ UNCHANGED <<engine, site, job, crawl4aiInstalled, items, results, loops, now,
                        saveFailed, resetItems>>

(* ---- retry_item, retry_failed_urls ---- *)
ResetItem(it) == [it EXCEPT !.status = "pending", !.error_message = NoError,
                            !.started_at = NoTime, !.completed_at = NoTime]

(* main.py: both counters are lowered, a finished batch goes back to pending *)
MainRetryItemBatch(b) ==
    [b EXCEPT !.failed_urls = b.failed_urls - 1,
              !.processed_urls = b.processed_urls - 1,
              !.status = IF b.status \in {"completed", "failed"}
                         THEN "pending" ELSE b.status]

(* crossplatform/web_app.py: only failed_urls is lowered *)
XRetryItemBatch(b) == [b EXCEPT !.failed_urls = b.failed_urls - 1]

RetryItemBatch(e, b) ==
    IF e = "main" THEN MainRetryItemBatch(b) ELSE XRetryItemBatch(b)

retry_item(i) ==
    IF items[i].status # "failed"
    THEN /\ last' = Step("retry_item", i, FALSE)
         /\ UNCHANGED <<engine, site, job, crawl4aiInstalled, batch, items, results, loops,
                        now, requests, pauseInEffect, inflightAtPause, saveFailed,
                        resetItems>>
    ELSE /\ requests < MaxRequests
         /\ requests' = requests + 1
         /\ items' = [items EXCEPT ![i] = ResetItem(items[i])]
         /\ batch' = RetryItemBatch(engine, batch)
         /\ last' = Step("retry_item", i, TRUE)
         /\ resetItems' = IF Finished(batch.status) THEN resetItems \cup {i}
                          ELSE resetItems
         /\ UNCHANGED <<engine, site, job, crawl4aiInstalled, results, loops, now,
                        pauseInEffect, inflightAtPause, saveFailed>>

MainRetryFailedBatch(b, n) ==
    [b EXCEPT !.failed_urls = 0,
              !.processed_urls = b.processed_urls - n,
              !.status = IF b.status \in {"completed", "failed"}
                         THEN "pending" ELSE b.status]

(* crossplatform/web_app.py: processed_urls is left alone, a completed batch
   becomes paused *)
XRetryFailedBatch(b, n) ==
    [b EXCEPT !.failed_urls = 0,
              !.status = IF b.status = "completed" THEN "paused" ELSE b.status]

RetryFailedBatch(e, b, n) ==
    IF e = "main" THEN MainRetryFailedBatch(b, n) ELSE XRetryFailedBatch(b, n)

retry_failed_urls ==
    LET failed_items == WithStatus("failed") IN
    IF failed_items = {}
    THEN /\ last' = Step("retry_failed_urls", 0, FALSE)
         /\ UNCHANGED <<engine, site, job, crawl4aiInstalled, batch, items, results, loops,
                        now, requests, pauseInEffect, inflightAtPause, saveFailed,
                        resetItems>>
    ELSE /\ requests < MaxRequests
         /\ requests' = requests + 1
         /\ items' = [i \in ItemIds |->
                         IF i \in failed_items THEN ResetItem(items[i]) ELSE items[i]]
         /\ batch' = RetryFailedBatch(engine, batch, Cardinality(failed_items))
         /\ last' = Step("retry_failed_urls", 0, TRUE)
         /\ resetItems' = IF Finished(batch.status) THEN resetItems \cup failed_items
                          ELSE resetItems
         /\ UNCHANGED <<engine, site, job, crawl4aiInstalled, results, loops, now,
                        pauseInEffect, inflightAtPause, saveFailed>>

UserNext ==
    \/ start_batch
    \/ pause_batch
    \/ \E i \in ItemIds : retry_item(i)
    \/ retry_failed_urls

(* ---- record updates of the processing loops ---- *)
(* the title of a row is the title the crawler returned for the URL *)
CrawlResultRow(i) == [job_id |-> BatchId, url |-> i, title |-> i]

ItemClaimed(it, t) == [it EXCEPT !.status = "processing", !.started_at = t]

ItemCompleted(it, rid, t) ==
    [it EXCEPT !.status = "completed", !.result_id = rid, !.completed_at = t]

ItemFailed(it, msg, t) ==
    [it EXCEPT !.status = "failed", !.error_message = msg, !.completed_at = t]

BatchCompleted(b, t) == [b EXCEPT !.status = "completed", !.completed_at = t]

BatchFailed(b) == [b EXCEPT !.status = "failed"]

(* the crawl of URL i can end in outcome o *)
CrawlDoes(i, o) == site[i] = "any" \/ site[i] = o

SetLoop(l, lp) == loops' = [loops EXCEPT ![l] = lp]

LoopStep == last' = Step("process_batch_job", 0, TRUE)

(* a step in which the thread ends on an engine-level error: the crawler
   package is missing, or an exception reaches the outermost except *)
LoopRaised == last' = Step("process_batch_job", 0, FALSE)

(* the error message the batch row holds: BatchJob has no error_message
   column, so the attribute the engine assigns is not part of the row *)
BatchErrorMessage(b) ==
    IF "error_message" \in DOMAIN b THEN b.error_message ELSE NoError

(* ---- main.py process_batch_job ---- *)

(* thread start up to the while loop *)
MainEntry(l) ==
    /\ engine = "main" /\ loops[l].pc = "entry"
    /\ IF batch.status # "running"
       THEN /\ SetLoop(l, DoneLoop)
            /\ LoopStep
            /\ UNCHANGED batch
       ELSE IF ~crawl4aiInstalled
       THEN /\ batch' = BatchFailed(batch)
            /\ SetLoop(l, DoneLoop)
            /\ LoopRaised
       ELSE /\ SetLoop(l, [loops[l] EXCEPT !.pc = "head", !.total_processed = 0])
            /\ LoopStep
            /\ UNCHANGED batch
    /\ UNCHANGED <<engine, site, job, crawl4aiInstalled, items, results, now, requests,
                   pauseInEffect, inflightAtPause, saveFailed,
                        resetItems>>

(* "Final check for completion" after the while loop *)
MainFinalCheck(b, t) ==
    IF b.processed_urls >= b.total_urls /\ b.status = "running"
    THEN BatchCompleted(b, t) ELSE b

(* LIMIT of the pending query: concurrent_limit - active_workers, and
   active_workers is never changed from 0 *)
MainLimit(b) == b.concurrent_workers - 0

(* top of the while loop: condition, refresh, status check, query of the
   round's items, claim of the first of them *)
MainRound(l) ==
    /\ engine = "main" /\ loops[l].pc = "head"
    /\ LoopStep
    /\ LET lp == loops[l]
           pending == WithStatus("pending")
       IN IF ~(batch.status = "running" /\ lp.total_processed < batch.total_urls)
          THEN /\ batch' = MainFinalCheck(batch, now)
               /\ SetLoop(l, DoneLoop)
               /\ UNCHANGED items
          ELSE IF pending = {}
          THEN IF WithStatus("processing") = {}
               THEN /\ batch' = MainFinalCheck(BatchCompleted(batch, now), now)
                    /\ SetLoop(l, DoneLoop)
                    /\ UNCHANGED items
               ELSE UNCHANGED <<batch, loops, items>>
          ELSE /\ \E rows \in RowsInAnyOrder(pending,
                                  Min(MainLimit(batch), Cardinality(pending))) :
                     /\ SetLoop(l, [lp EXCEPT !.pc = "crawl", !.pending_items = rows,
                                              !.idx = 1])
                     /\ items' = [items EXCEPT ![rows[1]] =
                                     ItemClaimed(items[rows[1]], now)]
               /\ UNCHANGED batch
    /\ UNCHANGED <<engine, site, job, crawl4aiInstalled, results, now, requests,
                   pauseInEffect, inflightAtPause, saveFailed,
                        resetItems>>

MainCounted(b, o) ==
    IF o = "ok"
    THEN [b EXCEPT !.processed_urls = b.processed_urls + 1,
                   !.successful_urls = b.successful_urls + 1]
    ELSE [b EXCEPT !.processed_urls = b.processed_urls + 1,
                   !.failed_urls = b.failed_urls + 1]

(* "Check if we should continue" after the round's last item *)
MainRoundEnd(b, t) ==
    IF b.processed_urls >= b.total_urls THEN BatchCompleted(b, t) ELSE b

(* the crawl call of the current item returns or raises (or saving its
   result raises): the item and the counters are updated; then the next item
   of the round is claimed, or the round ends *)
MainFinish(l, o) ==
    /\ engine = "main" /\ loops[l].pc = "crawl"
    /\ CrawlDoes(loops[l].pending_items[loops[l].idx], o)
    /\ LoopStep
    /\ LET lp == loops[l]
           i == lp.pending_items[lp.idx]
           more == lp.idx < Len(lp.pending_items)
           done_item == IF o = "ok"
                        THEN ItemCompleted(items[i], Len(results) + 1, now)
                        ELSE ItemFailed(items[i], "error_info_json", now)
           counted == MainCounted(batch, o)
       IN /\ results' = IF o = "ok" THEN Append(results, CrawlResultRow(i))
                        ELSE results
          /\ IF more
             THEN LET nxt == lp.pending_items[lp.idx + 1] IN
                  /\ items' = [items EXCEPT ![i] = done_item,
                                            ![nxt] = ItemClaimed(items[nxt], now)]
                  /\ batch' = counted
                  /\ SetLoop(l, [lp EXCEPT !.total_processed = lp.total_processed + 1,
                                           !.idx = lp.idx + 1])
             ELSE /\ items' = [items EXCEPT ![i] = done_item]
                  /\ batch' = MainFinalCheck(MainRoundEnd(counted, now), now)
                  /\ SetLoop(l, IF MainRoundEnd(counted, now).status = "completed"
                                 THEN DoneLoop
                                 ELSE [IdleLoop EXCEPT
                                          !.pc = "head",
                                          !.total_processed = lp.total_processed + 1])
    /\ UNCHANGED <<engine, site, job, crawl4aiInstalled, now, requests,
                   pauseInEffect, inflightAtPause, saveFailed,
                        resetItems>>

MainNext ==
    \E l \in LoopIds :
        \/ MainEntry(l)
        \/ MainRound(l)
        \/ \E o \in Outcomes : MainFinish(l, o)

(* ---- crossplatform/web_app.py process_batch_job ---- *)

(* time.sleep(...) with the name time unbound: NameError, caught by the
   outermost except, which re-reads the batch and marks it failed *)
SleepRaises(b) == BatchFailed(b)

(* thread start up to the while loop *)
XEntry(l) ==
    /\ engine = "crossplatform" /\ loops[l].pc = "entry"
    /\ IF ~crawl4aiInstalled
       THEN /\ batch' = BatchFailed(batch)
            /\ SetLoop(l, DoneLoop)
            /\ LoopRaised
       ELSE IF batch.status # "running"
       THEN /\ SetLoop(l, DoneLoop)
            /\ LoopStep
            /\ UNCHANGED batch
       ELSE /\ SetLoop(l, [loops[l] EXCEPT !.pc = "head"])
            /\ LoopStep
            /\ UNCHANGED batch
    /\ UNCHANGED <<engine, site, job, crawl4aiInstalled, items, results, now, requests,
                   pauseInEffect, inflightAtPause, saveFailed,
                        resetItems>>

XLimit(b) == b.concurrent_workers

Counters(b) == [processed_urls |-> b.processed_urls,
                successful_urls |-> b.successful_urls,
                failed_urls |-> b.failed_urls]

(* top of the while loop: status check, ordered query, completion test,
   claim of all the round's items, status check before the first item *)
XRound(l) ==
    /\ engine = "crossplatform" /\ loops[l].pc = "head"
    /\ LET lp == loops[l]
           pending == WithStatus("pending")
           rows == RowsOrdered(pending, Min(XLimit(batch), Cardinality(pending)))
       IN IF batch.status # "running"
          THEN /\ SetLoop(l, DoneLoop)
               /\ LoopStep
               /\ UNCHANGED <<batch, items>>
          ELSE IF rows = <<>>
          THEN /\ IF WithStatus("processing") = {}
                  THEN batch' = BatchCompleted(batch, now) /\ LoopStep
                  ELSE batch' = SleepRaises(batch) /\ LoopRaised
               /\ SetLoop(l, DoneLoop)
               /\ UNCHANGED items
          ELSE /\ LoopStep
               /\ items' = [i \in ItemIds |->
                               IF \E k \in 1..Len(rows) : rows[k] = i
                               THEN ItemClaimed(items[i], now) ELSE items[i]]
               /\ SetLoop(l, [lp EXCEPT !.pc = "crawl", !.pending_items = rows,
                                        !.idx = 1, !.snap = Counters(batch)])
               /\ UNCHANGED batch
    /\ UNCHANGED <<engine, site, job, crawl4aiInstalled, results, now, requests,
                   pauseInEffect, inflightAtPause, saveFailed,
                        resetItems>>

(* "if result:" -- any result that is not None or empty takes the branch
   that saves it *)
XHasResult(o) == o \in {"ok", "bad_result"}

(* save_result_to_db: the id of the new row, or None when building or
   committing the row raises *)
XResultId(o, rid) == IF o = "ok" THEN rid ELSE NoResult

(* error_message of the item: str(e) of the exception, None when the crawler
   returned nothing without raising *)
XErrorMessage(o) ==
    CASE o = "crawl_error" -> "exception_text"
      [] o = "crawl_error_blank" -> ""
      [] OTHER -> NoError

(* the counters are written from the batch object read before the crawl *)
XCounted(b, snap, o) ==
    IF XHasResult(o)
    THEN [b EXCEPT !.processed_urls = snap.processed_urls + 1,
                   !.successful_urls = snap.successful_urls + 1]
    ELSE [b EXCEPT !.processed_urls = snap.processed_urls + 1,
                   !.failed_urls = snap.failed_urls + 1]

(* the crawl call of the current item returns or raises: the item and the
   counters are updated; then the status is checked before the next item, or
   the round ends in time.sleep(1).  An error of save_result is outside the
   per-item try and ends the thread. *)
XFinish(l, o) ==
    /\ engine = "crossplatform" /\ loops[l].pc = "crawl"
    /\ CrawlDoes(loops[l].pending_items[loops[l].idx], o)
    /\ LET lp == loops[l]
           i == lp.pending_items[lp.idx]
           more == lp.idx < Len(lp.pending_items)
           counted == XCounted(batch, lp.snap, o)
       IN IF o = "save_error"
          THEN /\ batch' = BatchFailed(batch)
               /\ SetLoop(l, DoneLoop)
               /\ LoopRaised
               /\ UNCHANGED <<items, results>>
          ELSE /\ results' = IF o = "ok" THEN Append(results, CrawlResultRow(i))
                             ELSE results
               /\ items' = [items EXCEPT ![i] =
                               IF XHasResult(o)
                               THEN ItemCompleted(items[i],
                                        XResultId(o, Len(results) + 1), now)
                               ELSE ItemFailed(items[i], XErrorMessage(o), now)]
               /\ IF more /\ batch.status = "running"
                  THEN /\ batch' = counted
                       /\ SetLoop(l, [lp EXCEPT !.idx = lp.idx + 1,
                                                !.snap = Counters(counted)])
                       /\ LoopStep
                  ELSE /\ batch' = SleepRaises(counted)
                       /\ SetLoop(l, DoneLoop)
                       /\ LoopRaised
    /\ saveFailed' = (saveFailed \/ o = "save_error")
    /\ UNCHANGED <<engine, site, job, crawl4aiInstalled, now, requests,
                   pauseInEffect, inflightAtPause, resetItems>>

XNext ==
    \E l \in LoopIds :
        \/ XEntry(l)
        \/ XRound(l)
        \/ \E o \in Outcomes : XFinish(l, o)

Next == UserNext \/ MainNext \/ XNext

Spec == Init /\ [][Next]_vars

(* ======================= properties ======================= *)

(* which loops hold an item: have claimed it and not yet recorded its outcome *)
Holds(l, i) ==
    /\ loops[l].pc = "crawl"
    /\ IF engine = "main"
       THEN loops[l].pending_items[loops[l].idx] = i
       ELSE \E k \in loops[l].idx..Len(loops[l].pending_items) :
               loops[l].pending_items[k] = i

Holders(i) == {l \in LoopIds : Holds(l, i)}

LoopsFinished == \A l \in LoopIds : loops[l].pc \in {"idle", "done"}

(* C1: in every reachable state processed_urls = successful_urls +
   failed_urls and processed_urls <= total_urls. *)
C1_CountersConsistent ==
    /\ batch.processed_urls = batch.successful_urls + batch.failed_urls
    /\ batch.processed_urls <= batch.total_urls

(* C2: whenever the batch is completed, processed_urls = total_urls and no
   item is pending or processing. *)
C2_CompletedMeansDrained ==
    batch.status = "completed" =>
        /\ batch.processed_urls = batch.total_urls
        /\ WithStatus("pending") = {}
        /\ WithStatus("processing") = {}

(* C3: the number of items in processing never exceeds concurrent_workers. *)
C3_ProcessingBounded ==
    Cardinality(WithStatus("processing")) <= batch.concurrent_workers

(* C4: no item is held by two processing loops at once. *)
C4_SingleHolder ==
    \A i \in ItemIds : Cardinality(Holders(i)) <= 1

(* C5: an item is never moved from pending to processing while another item
   that precedes it (priority descending, creation ascending) stays pending. *)
C5_ClaimOrder ==
    [][\A i, j \in ItemIds :
          (/\ items[i].status = "pending" /\ items'[i].status = "processing"
           /\ items[j].status = "pending" /\ items'[j].status = "pending")
          => ~Precedes(j, i)]_vars

(* C6: start on a running, completed or failed batch is rejected and changes
   nothing: batch row, items, results and threads are as before. *)
C6_StartRejectedNoChange ==
    [][(last'.op = "start_batch" /\ batch.status \in {"running", "completed", "failed"})
          => /\ ~last'.ok
             /\ batch' = batch /\ items' = items /\ results' = results
             /\ loops' = loops /\ now' = now]_vars

C6_Witness ==
    /\ last = Step("start_batch", 0, FALSE)
    /\ batch.status = "running"
    /\ \E l \in LoopIds : loops[l].pc = "crawl"

(* C7: start on a pending or paused batch sets status running and launches
   one processing thread that has not run yet (the caller is not blocked, no
   item is touched); started_at is set by the first start and never changes
   afterwards, whatever step follows. *)
C7_StartEffect ==
    [][/\ (last'.op = "start_batch" /\ batch.status \in {"pending", "paused"})
            => /\ last'.ok
               /\ batch'.status = "running"
               /\ \E l \in LoopIds :
                     /\ loops[l].pc = "idle" /\ loops'[l].pc = "entry"
                     /\ \A m \in LoopIds \ {l} : loops'[m] = loops[m]
               /\ items' = items /\ results' = results
               /\ batch.started_at = NoTime => batch'.started_at = now'
       /\ batch.started_at # NoTime => batch'.started_at = batch.started_at
       /\ (batch.started_at = NoTime /\ batch'.started_at # NoTime)
            => last'.op = "start_batch"]_vars

C7_Witness ==
    /\ last = Step("start_batch", 0, TRUE)
    /\ now = 2
    /\ batch.started_at = 1
    /\ batch.status = "running"

(* C8: after an accepted pause and until the next start, no item moves from
   pending to processing. *)
C8_NoClaimAfterPause ==
    [][(pauseInEffect /\ pauseInEffect')
          => \A i \in ItemIds :
                ~(items[i].status = "pending" /\ items'[i].status = "processing")]_vars

(* C9: an item that was in processing when pause was accepted is not left in
   processing: once every processing thread has ended, with no start since
   the pause and no error in saving a result, each such item is completed or
   failed. *)
C9_InflightItemsFinish ==
    (pauseInEffect /\ LoopsFinished /\ ~saveFailed)
        => \A i \in inflightAtPause : items[i].status # "processing"

(* C10: an accepted retryItem leaves the item pending with error message,
   result reference, started_at and completed_at null and lowers failed_urls
   and processed_urls by 1 each; an item that goes from processing to
   completed raises processed_urls and successful_urls by 1 each and is
   linked to a CrawlResult of its URL. *)
C10_RetryItemRoundTrip ==
    [][/\ (last'.op = "retry_item" /\ last'.ok)
            => /\ items'[last'.arg].status = "pending"
               /\ items'[last'.arg].error_message = NoError
               /\ items'[last'.arg].result_id = NoResult
               /\ items'[last'.arg].started_at = NoTime
               /\ items'[last'.arg].completed_at = NoTime
               /\ batch'.failed_urls = batch.failed_urls - 1
               /\ batch'.processed_urls = batch.processed_urls - 1
       /\ \A i \in ItemIds :
            (items[i].status = "processing" /\ items'[i].status = "completed")
            => /\ batch'.processed_urls = batch.processed_urls + 1
               /\ batch'.successful_urls = batch.successful_urls + 1
               /\ items'[i].result_id \in 1..Len(results')
               /\ results'[items'[i].result_id].url = i]_vars

(* C11: an accepted retryFailed sets every failed item to pending and lowers
   failed_urls and processed_urls by the number of items reset, leaving
   successful_urls and total_urls as they were. *)
C11_RetryFailedCounts ==
    [][(last'.op = "retry_failed_urls" /\ last'.ok)
          => LET n == Cardinality(WithStatus("failed")) IN
             /\ \A i \in WithStatus("failed") : items'[i].status = "pending"
             /\ batch'.failed_urls = batch.failed_urls - n
             /\ batch'.processed_urls = batch.processed_urls - n
             /\ batch'.successful_urls = batch.successful_urls
             /\ batch'.total_urls = batch.total_urls]_vars

(* C12: an accepted retryItem or retryFailed on a completed or failed batch
   leaves the batch pending, and no item reset by it goes to processing
   before a start is accepted. *)
C12_RetryReopensBatch ==
    [][/\ (/\ last'.op \in {"retry_item", "retry_failed_urls"} /\ last'.ok
           /\ Finished(batch.status))
            => batch'.status = "pending"
       /\ \A i \in resetItems \cap resetItems' :
             ~(items[i].status = "pending" /\ items'[i].status = "processing")]_vars

(* C13: pause on a batch that is not running, retryItem on an item that is
   not failed and retryFailed on a batch without failed items are rejected
   and change no batch, item or result record and no thread. *)
C13_RejectedRequestsNoChange ==
    [][(\/ last'.op = "pause_batch" /\ batch.status # "running"
        \/ last'.op = "retry_item" /\ items[last'.arg].status # "failed"
        \/ last'.op = "retry_failed_urls" /\ WithStatus("failed") = {})
          => /\ ~last'.ok
             /\ batch' = batch /\ items' = items /\ results' = results
             /\ loops' = loops]_vars

C13_Witness ==
    /\ last = Step("retry_item", 1, FALSE)
    /\ items[1].status = "processing"
    /\ batch.status = "paused"
    /\ WithStatus("failed") = {}

(* C14: in a step in which an item goes from processing to failed, no other
   item becomes failed, processed_urls and failed_urls rise by 1 each, the
   batch is not set to failed, and while the batch is running with items
   still pending the thread that processed the item lives on. *)
C14_ItemFailureIsolated ==
    [][\A i \in ItemIds :
          (items[i].status = "processing" /\ items'[i].status = "failed")
          => /\ \A j \in ItemIds \ {i} :
                   items'[j].status = "failed" => items[j].status = "failed"
             /\ batch'.processed_urls = batch.processed_urls + 1
             /\ batch'.failed_urls = batch.failed_urls + 1
             /\ batch'.status = "failed" => batch.status = "failed"
             /\ (batch.status = "running" /\ \E j \in ItemIds : items'[j].status = "pending")
                   => \E l \in LoopIds : /\ loops[l].pc = "crawl"
                                         /\ loops'[l] # loops[l]
                                         /\ loops'[l].pc \in {"crawl", "head"}]_vars

(* C15: a step in which a thread finds the crawler package missing, or in
   which an exception leaves the per-item handling, sets the batch to failed,
   leaves an error message on the batch row, ends the thread and moves no
   item to processing. *)
C15_EngineErrorFailsBatch ==
    [][(last'.op = "process_batch_job" /\ ~last'.ok)
          => /\ batch'.status = "failed"
             /\ BatchErrorMessage(batch') # NoError
             /\ \E l \in LoopIds : loops[l].pc \notin {"idle", "done"} /\ loops'[l] = DoneLoop
             /\ \A i \in ItemIds :
                   ~(items[i].status = "pending" /\ items'[i].status = "processing")]_vars

(* C16: in every reachable state a completed item has a result reference and
   a failed item has an error message. *)
C16_OutcomeRecorded ==
    \A i \in ItemIds :
        /\ items[i].status = "completed" => items[i].result_id # NoResult
        /\ items[i].status = "failed" => items[i].error_message # NoError

(* ---- one run to the end: a single start, no pause, no retry, and for each
   URL a crawl that either succeeds or raises ---- *)
InitDrain == create_batch /\ site \in [ItemIds -> PlainOutcomes] /\ job = NoJob

FirstStart == requests = 0 /\ start_batch

NextDrain == FirstStart \/ MainNext \/ XNext

SpecDrain == InitDrain /\ [][NextDrain]_vars

(* the thread of the single start has ended *)
Drained == now = 1 /\ LoopsFinished

(* C17: after a single start with the crawler package present, once the
   thread has ended: the batch is completed, successful_urls is the number
   of URLs whose crawl succeeds and failed_urls the number of URLs whose
   crawl raises, each URL whose crawl succeeds has a completed item linked to
   a CrawlResult of that URL with the crawler's title, and each URL whose
   crawl raises has a failed item with a non-empty error message. *)
C17_RunToCompletion ==
    (Drained /\ crawl4aiInstalled)
        => /\ batch.status = "completed"
           /\ batch.successful_urls = Cardinality({i \in ItemIds : site[i] = "ok"})
           /\ batch.failed_urls = Cardinality({i \in ItemIds : site[i] # "ok"})
           /\ \A i \in ItemIds :
                 IF site[i] = "ok"
                 THEN /\ items[i].status = "completed"
                      /\ items[i].result_id \in 1..Len(results)
                      /\ results[items[i].result_id].url = i
                      /\ results[items[i].result_id].title = i
                 ELSE /\ items[i].status = "failed"
                      /\ items[i].error_message \notin {NoError, ""}

(* ---- pause and resume: a start, one pause, one more start, no retry, and
   every crawl call returns; each thread that can take a step eventually
   takes one ---- *)
PauseOnce == requests = 1 /\ pause_batch

Restart == requests = 2 /\ start_batch

LoopNext(l) ==
    \/ MainEntry(l) \/ MainRound(l) \/ \E o \in Outcomes : MainFinish(l, o)
    \/ XEntry(l) \/ XRound(l) \/ \E o \in Outcomes : XFinish(l, o)

NextResume == FirstStart \/ PauseOnce \/ Restart \/ MainNext \/ XNext

SpecResume ==
    /\ Init /\ [][NextResume]_vars
    /\ \A l \in LoopIds : WF_vars(LoopNext(l))

AllItemsDone == \A i \in ItemIds : items[i].status \in {"completed", "failed"}

(* C18: once a batch that was paused while running has been started again,
   with the crawler package present, it eventually is completed with every
   item completed or failed. *)
C18_ResumeCompletes ==
    [](( now = 2 /\ crawl4aiInstalled)
          => <>(batch.status = "completed" /\ AllItemsDone))

(* C19: in every reachable state successful_urls is the number of completed
   items and failed_urls the number of failed items. *)
C19_NoLostCounterUpdate ==
    /\ batch.successful_urls = Cardinality(WithStatus("completed"))
    /\ batch.failed_urls = Cardinality(WithStatus("failed"))

(* ---- export_batch_results: a request that reads the records ---- *)

(* main.py: a warning without completed items, otherwise the notice that
   export is not implemented yet; a bundle is never produced *)
MainExport == Step("export_batch_results", 0, FALSE)

(* crossplatform/web_app.py: the completed items that have a result_id; a
   warning if there is none, otherwise a bundle with one entry per such item
   whose CrawlResult row exists *)
XExport ==
    LET items_with_results ==
            {i \in WithStatus("completed") : items[i].result_id # NoResult}
        entries == {i \in items_with_results :
                       items[i].result_id \in 1..Len(results)}
    IN IF items_with_results = {}
       THEN Step("export_batch_results", 0, FALSE)
       ELSE Step("export_batch_results", Cardinality(entries), TRUE)

(* the step records whether a bundle was returned and how many entries it has *)
export_batch_results ==
    /\ last' = IF engine = "main" THEN MainExport ELSE XExport
    /\ UNCHANGED <<engine, site, job, crawl4aiInstalled, batch, items, results, loops,
                   now, requests, pauseInEffect, inflightAtPause, saveFailed,
                   resetItems>>

NextExport == Next \/ export_batch_results

SpecExport == Init /\ [][NextExport]_vars

(* C20: export with at least one completed item returns a bundle with one
   entry per completed item that is linked to a CrawlResult; with no
   completed item it returns no bundle; in both cases batch, items and
   results are left as they were. *)
C20_ExportBundle ==
    [][last'.op = "export_batch_results"
          => /\ WithStatus("completed") # {}
                   => /\ last'.ok
                      /\ last'.arg = Cardinality({i \in WithStatus("completed") :
                                         items[i].result_id \in 1..Len(results)})
             /\ WithStatus("completed") = {} => ~last'.ok
             /\ batch' = batch /\ items' = items /\ results' = results]_vars
(* ---- run_crawl: the one-shot crawl request and its CrawlJob row ---- *)
(* The request is one Flask request: it creates the row, calls the crawler
   and waits for it, saves what came back and finalizes the row.  Its steps
   are its commits; the batch threads run beside it. *)

(* datetime.utcnow() in the request: later than every time stamped before *)
JobTime == now + 1

(* mutation: the constructor call also stamps completed_at *)
JobCreatedAndStamped ==
    [status |-> "running", completed_at |-> JobTime,
     error_message |-> NoError, pages_crawled |-> 0, pc |-> "created"]

JobCreated == [status |-> "running", completed_at |-> NoTime,
               error_message |-> NoError, pages_crawled |-> 0, pc |-> "created"]

JobStep(ok) == last' = Step("run_crawl", JobId, ok)

(* main.py: "import crawl4ai" fails: failed with a message, completed_at is
   not written *)
MainJobImportError(j) ==
    [j EXCEPT !.status = "failed", !.error_message = "not_installed",
              !.pc = "done"]

(* main.py: the except of run_crawl *)
MainJobFailed(j, t) ==
    [j EXCEPT !.status = "failed", !.error_message = "error_info_json",
              !.completed_at = t, !.pc = "done"]

(* crossplatform/web_app.py: the inner except of run_crawl, which also takes
   the ImportError; completed_at is not written *)
XJobFailed(j, o) ==
    [j EXCEPT !.status = "failed",
              !.error_message = IF o = "crawl_error_blank" THEN ""
                                ELSE "exception_text",
              !.pc = "done"]

JobCompleted(j, n, t) ==
    [j EXCEPT !.status = "completed", !.completed_at = t, !.pages_crawled = n,
              !.pc = "done"]

(* the CrawlResult row save_result_to_db writes for the request's URL *)
JobResultRow == [job_id |-> JobId, url |-> JobUrl, title |-> JobUrl]

(* form validated, row added with status running and committed *)
run_crawl ==
    /\ job.pc = "none"
    /\ job' = JobCreated
    /\ JobStep(TRUE)
    /\ UNCHANGED <<engine, site, crawl4aiInstalled, batch, items, results, loops,
                   now, requests, pauseInEffect, inflightAtPause, saveFailed,
                   resetItems>>

(* the import of the crawler package, then the call of the crawler *)
JobImport ==
    /\ job.pc = "created"
    /\ IF crawl4aiInstalled
       THEN job' = [job EXCEPT !.pc = "crawl"] /\ JobStep(TRUE)
       ELSE /\ job' = IF engine = "main" THEN MainJobImportError(job)
                      ELSE XJobFailed(job, "crawl_error")
            /\ JobStep(FALSE)
    /\ UNCHANGED <<engine, site, crawl4aiInstalled, batch, items, results, loops,
                   now, requests, pauseInEffect, inflightAtPause, saveFailed,
                   resetItems>>

(* main.py: the crawler call returns or raises.  A result is written to its
   file and to the CrawlResult table (save_result_to_db commits, or logs its
   own error and returns None); anything else that raises -- the crawl, a
   result that is None, the file write -- goes to the except of run_crawl *)
MainJobCrawl(o) ==
    IF o \in {"ok", "bad_result"}
    THEN /\ results' = IF o = "ok" THEN Append(results, JobResultRow) ELSE results
         /\ job' = [job EXCEPT !.pc = "saved"]
         /\ JobStep(TRUE)
    ELSE /\ job' = MainJobFailed(job, JobTime)
         /\ JobStep(FALSE)
         /\ UNCHANGED results

(* crossplatform/web_app.py: "if result:" guards the saving, so a crawl that
   returns None still completes the job; a raise of the crawl or of
   save_result goes to the inner except *)
XJobCrawl(o) ==
    IF o \in {"ok", "bad_result", "no_result"}
    THEN /\ results' = IF o = "ok" THEN Append(results, JobResultRow) ELSE results
         /\ job' = [job EXCEPT !.pc = "saved"]
         /\ JobStep(TRUE)
    ELSE /\ job' = XJobFailed(job, o)
         /\ JobStep(FALSE)
         /\ UNCHANGED results

JobCrawl(o) ==
    /\ job.pc = "crawl"
    /\ IF engine = "main" THEN MainJobCrawl(o) ELSE XJobCrawl(o)
    /\ UNCHANGED <<engine, site, crawl4aiInstalled, batch, items, loops,
                   now, requests, pauseInEffect, inflightAtPause, saveFailed,
                   resetItems>>

(* "Update job status": completed, completed_at, pages_crawled, commit *)
JobFinalize ==
    /\ job.pc = "saved"
    /\ job' = JobCompleted(job, 1, JobTime)
    /\ JobStep(TRUE)
    /\ UNCHANGED <<engine, site, crawl4aiInstalled, batch, items, results, loops,
                   now, requests, pauseInEffect, inflightAtPause, saveFailed,
                   resetItems>>

JobNext ==
    \/ run_crawl
    \/ JobImport
    \/ \E o \in Outcomes : JobCrawl(o)
    \/ JobFinalize

(* one-shot requests beside a batch that is started once *)
NextJob == JobNext \/ FirstStart \/ MainNext \/ XNext

SpecJob == Init /\ [][NextJob]_vars

(* C21: the status of the one-shot Job moves only from running to completed
   or from running to failed and never changes after that, and completed_at
   is null as long as the status is not completed or failed. *)
C21_JobStatusMonotonic ==
    [][/\ job'.status # job.status
            => \/ job.status = "none" /\ job'.status = "running"
               \/ job.status = "running" /\ job'.status \in {"completed", "failed"}
       /\ ~Finished(job.status) => job.completed_at = NoTime]_vars

C21_Witness ==
    /\ job.status = "completed" /\ job.completed_at # NoTime
    /\ last = Step("run_crawl", JobId, TRUE)
(* C22: a processing thread ends only in a step in which it found the batch
   not running or set it to completed or failed; it never ends leaving the
   batch running with an item pending, retries during the run included. *)
C22_LoopExitsOnlyWhenDone ==
    [][\A l \in LoopIds :
          (loops[l].pc \notin {"idle", "done"} /\ loops'[l].pc = "done")
          => /\ batch.status # "running" \/ Finished(batch'.status)
             /\ ~(/\ batch'.status = "running"
                  /\ \E i \in ItemIds : items'[i].status = "pending")]_vars
(* ---- saving fails: for each URL the crawl succeeds and its result is
   stored, or the crawl succeeds and the output file cannot be written ---- *)
InitSave ==
    create_batch /\ site \in [ItemIds -> {"ok", "save_error"}] /\ job = NoJob

SpecSave == InitSave /\ [][Next]_vars

(* the item thread l is working on *)
Current(l) == loops[l].pending_items[loops[l].idx]

(* C23: in the step in which saving the result of an item raises, that item
   becomes failed with an error message, the batch is not set to failed, and
   while the batch is running with items still pending the thread lives on. *)
C23_SaveErrorIsItemFailure ==
    [][\A l \in LoopIds :
          (/\ loops[l].pc = "crawl" /\ loops'[l] # loops[l]
           /\ site[Current(l)] = "save_error")
          => /\ items'[Current(l)].status = "failed"
             /\ items'[Current(l)].error_message # NoError
             /\ batch'.status = "failed" => batch.status = "failed"
             /\ (batch.status = "running" /\ \E j \in ItemIds : items'[j].status = "pending")
                   => loops'[l].pc \in {"crawl", "head"}]_vars
(* C24: an item's status changes only from pending to processing, from
   processing to completed or failed, and from failed to pending, the last
   only in an accepted retry request. *)
C24_ItemTransitions ==
    [][\A i \in ItemIds :
          items'[i].status # items[i].status
          => \/ items[i].status = "pending" /\ items'[i].status = "processing"
             \/ /\ items[i].status = "processing"
                /\ items'[i].status \in {"completed", "failed"}
             \/ /\ items[i].status = "failed" /\ items'[i].status = "pending"
                /\ last'.op \in {"retry_item", "retry_failed_urls"}
                /\ last'.ok]_vars
(* C25: the batch is not created paused, and it becomes paused only in an
   accepted pause request on a running batch. *)
C25_PausedOnlyByPause ==
    /\ batch.status # "paused"
    /\ [][(batch'.status = "paused" /\ batch.status # "paused")
             => /\ last' = Step("pause_batch", 0, TRUE)
                /\ batch.status = "running"]_vars
(* C26: a paused batch leaves status paused only in an accepted start
   request; no step of a processing thread writes another status over
   paused. *)
C26_PausedUntilStart ==
    [][(batch.status = "paused" /\ batch'.status # "paused")
          => last' = Step("start_batch", 0, TRUE)]_vars
(* the threads that have been launched and have not returned *)
ActiveLoops == {l \in LoopIds : loops[l].pc \notin {"idle", "done"}}

(* C27: in every reachable state at most one processing thread of the batch
   is active. *)
C27_SingleActiveLoop == Cardinality(ActiveLoops) <= 1
(* an item in processing that no thread is working on *)
Stuck(i) == items[i].status = "processing" /\ Holders(i) = {}

(* C28: an item in processing that no thread is working on stays in
   processing in every step that is not a retry, and a retryItem request for
   it is accepted and returns it to pending. *)
C28_StuckItemRetry ==
    [][\A i \in ItemIds :
          Stuck(i)
          => IF last' = Step("retry_item", i, TRUE) \/ last' = Step("retry_item", i, FALSE)
             THEN last'.ok /\ items'[i].status = "pending"
             ELSE items'[i].status = "processing"]_vars
(* job_detail: CrawlResult.query.filter_by(job_id=job_id) *)
JobResults == {k \in 1..Len(results) : results[k].job_id = JobId}

(* C29: every CrawlResult row found for the one-shot Job by its id is a row
   that Job produced, that is, a row of the Job's URL. *)
C29_JobResultsOwned ==
    job.status # "none" => \A k \in JobResults : results[k].url = JobUrl
(* ---- BatchJob.progress_percentage, BatchJob.remaining_urls ---- *)
(* int(x) of Python: the integer part, rounded toward zero *)
IntOfQuotient(a, b) == IF a >= 0 THEN a \div b ELSE -((-a) \div b)

progress_percentage(b) ==
    IF b.total_urls <= 0 THEN 0
    ELSE IntOfQuotient(b.processed_urls * 100, b.total_urls)

remaining_urls(b) == b.total_urls - b.processed_urls

(* C30: in every reachable state processed_urls, successful_urls and
   failed_urls are not negative, remaining_urls() is not negative and
   progress_percentage() is between 0 and 100. *)
C30_CountersInRange ==
    /\ batch.processed_urls >= 0
    /\ batch.successful_urls >= 0
    /\ batch.failed_urls >= 0
    /\ remaining_urls(batch) >= 0
    /\ progress_percentage(batch) \in 0..100
====
